---- MODULE Spec2Model ----
(***************************************************************************)
(* The autograd profiler of torch/csrc/autograd/profiler.cpp as a state    *)
(* machine: the global ProfilerState, the registry of per-thread event     *)
(* lists behind all_event_lists_mutex, and the threads that call mark,     *)
(* pushRange, popRange, RecordFunction, enableProfiler and disableProfiler.*)
(* Every read or write of shared memory is one step, so that the threads   *)
(* interleave exactly where the code lets them.                            *)
(*                                                                         *)
(* The scenario: the main thread drives the profiler (enableProfiler,      *)
(* disableProfiler), the worker threads run the instrumented code (mark,   *)
(* pushRange, popRange, RecordFunction scopes) and may exit.  At most      *)
(* MaxOps calls are made in all.                                           *)
(*                                                                         *)
(* The second part is struct Function of torch/csrc/autograd/function.h    *)
(* with its free functions create_gradient_edge and collect_next_edges:    *)
(* the nodes' sequence numbers, next edges, input metadata and hooks.  Its  *)
(* specification is FunctionSpec; at most MaxCalls calls are made in all.  *)
(***************************************************************************)
EXTENDS Integers, Sequences, FiniteSets, TLC

\* ------------------------------------------------------------------ bounds
MaxOps == 5

\* cudaGetDeviceCount(&count) of onEachDevice
NumDevices == 1

\* calls on Functions, Variables and the modes (FunctionSpec)
MaxCalls == 4

\* the indices the indexed accessors are called with: 0..MaxIndex
MaxIndex == 2

Main == "main"
Workers == {"worker"}
Threads == {Main} \cup Workers
NoThread == "none"
Names == {"a", "b"}
ProfilerState == {"Disabled", "CPU", "CUDA", "NVTX"}

VARIABLES
    USE_CUDA,          \* the build flag of #ifdef USE_CUDA
    state,             \* ProfilerState state
    next_thread_id,    \* uint32_t next_thread_id
    mutex,             \* all_event_lists_mutex: its holder, or NoThread
    all_event_lists,   \* the registry, front first; a list is named by its creator
    event_list,        \* thread_local event_list: TRUE when non-null
    thread_id,         \* thread_local int32_t thread_id
    lists,             \* the RangeEventList each thread created: its events
    alive,             \* the thread has not exited (its thread_locals exist)
    pc,                \* where each thread stands
    frame,             \* the locals of the call a thread is in
    err,               \* the exception the thread's last call ended with
    rf,                \* the RecordFunction scope a thread has on its stack
    ops,               \* calls made so far (bounded by MaxOps)
    registered,        \* history: times each thread registered an event list
    calls,             \* history: each thread's calls of mark, pushRange and
                       \* popRange that went on to getEventList, since its
                       \* list was last consolidated
    recorders,         \* history: threads that called a recording function
                       \* since the last report was returned, or were in one
                       \* as it was returned
    backward_apply_state,        \* thread_local bool RecordFunction::backward_apply_state
    backward_apply_sequence_nr,  \* thread_local int64_t RecordFunction::backward_apply_sequence_nr
    faults,            \* history: which of "mark while Disabled" (a mark that
                       \* went on to record with the profiler off) and "event
                       \* lost" (a record() run into by consolidate) happened
    stamps             \* history: for each event of each list (.lists) and of
                       \* the report being made (.result), when record() put
                       \* it there: "session" (state was not Disabled),
                       \* "disabled" (state was Disabled), or "earlier"
                       \* (before the state last left Disabled)

VARIABLES
    AnomalyMode_enabled,  \* AnomalyMode::is_enabled()
    built,                \* the Function objects constructed so far
    sequence_nr_,         \* const uint64_t sequence_nr_
    next_edges_,          \* edge_list next_edges_
    input_metadata_,      \* at::SmallVector<InputMetadata, 2> input_metadata_
    pre_hooks_,           \* std::vector<std::unique_ptr<FunctionPreHook>> pre_hooks_
    post_hooks_,          \* std::vector<std::unique_ptr<FunctionPostHook>> post_hooks_
    anomaly_metadata_,    \* std::unique_ptr<AnomalyMetadata> anomaly_metadata_
    next_sequence_nr,     \* the thread's counter get_next_sequence_nr() refers to
    GradMode_enabled,     \* GradMode::is_enabled() of each thread
    gradient_edge,        \* the gradient edge of each defined Variable
    out,                  \* the last call: its arguments, result and error
    crashed,              \* the process has been ended by an access out of bounds
    fcalls,               \* calls made so far (bounded by MaxCalls)
    constructions,        \* history: the constructions, in order
    added,                \* history: the add_input_metadata calls on each node
    cleared               \* history: the nodes clear_input_metadata was called on

\* The state of the Functions and Variables.
functions == <<AnomalyMode_enabled, built, sequence_nr_, next_edges_, input_metadata_,
               pre_hooks_, post_hooks_, anomaly_metadata_, next_sequence_nr,
               GradMode_enabled, gradient_edge, out, crashed, fcalls,
               constructions, added, cleared>>

vars == <<functions, USE_CUDA, state, next_thread_id, mutex, all_event_lists, event_list,
          thread_id, lists, alive, pc, frame, err, rf, ops, registered, calls,
          recorders, backward_apply_state, backward_apply_sequence_nr, faults, stamps>>

\* The thread_locals of RecordFunction.
backward == <<backward_apply_state, backward_apply_sequence_nr>>

registry == <<next_thread_id, all_event_lists, event_list, thread_id, registered>>

\* What a step that only moves a thread through its own call leaves alone.
shared == <<functions, backward, USE_CUDA, state, mutex, lists, alive, registry>>

Sampling(s) == s \in {"CPU", "CUDA"}

NoFrame ==
    [ret |-> "user", kind |-> "Mark", name |-> "", include_cuda |-> FALSE,
     k |-> 0, old_state |-> "Disabled", new_state |-> "Disabled",
     it |-> 0, result |-> <<>>, at_lock |-> <<>>,
     at_call |-> [state |-> "Disabled", len |-> 0]]

NoScope == [open |-> FALSE, pushed |-> FALSE, popped |-> FALSE]

\* ------------------------------------------------- Functions: the values
\* The Function objects, in the order they are constructed.
Fns == <<"f", "g", "h">>
FnSet == {Fns[i] : i \in 1..Len(Fns)}

\* Edge: (function, input_nr); Edge() has no function.
Edge(function, input_nr) == [function |-> function, input_nr |-> input_nr]
NoEdge == Edge("nullptr", 0)

\* Edge::is_valid
is_valid(edge) == edge.function # "nullptr"

\* The edges given to set_next_edge, add_next_edge and the constructors.
SomeEdges == {NoEdge, Edge("g", 0)}
SomeEdgeLists == {<<>>, <<NoEdge, Edge("g", 0)>>}

\* The tensors of the Variables: "v" on the CPU, "w" on CUDA device 1; "u" is
\* an undefined Variable.
DefinedVariables == {"v", "w"}
Tensor(variable) ==
    IF variable = "v"
      THEN [type |-> "CPUFloatType", sizes |-> <<2>>, is_cuda |-> FALSE, get_device |-> 0]
      ELSE [type |-> "CUDAFloatType", sizes |-> <<3>>, is_cuda |-> TRUE, get_device |-> 1]

\* InputMetadata(type, shape, device), InputMetadata(tensor), InputMetadata()
InputMetadata(type, shape, device) == [type |-> type, shape |-> shape, device |-> device]
InputMetadataOf(t) ==
    InputMetadata(t.type, t.sizes, IF t.is_cuda THEN t.get_device ELSE -1)
InputMetadataNone == InputMetadata("nullptr", <<>>, -1)

\* What a call leaves in out.
Out(op, fn, arg, value, error, visited) ==
    [op |-> op, fn |-> fn, arg |-> arg, value |-> value, error |-> error,
     visited |-> visited]

FunctionInit ==
    /\ AnomalyMode_enabled = FALSE
    /\ built = {}
    /\ sequence_nr_ = [f \in FnSet |-> 0]
    /\ next_edges_ = [f \in FnSet |-> <<>>]
    /\ input_metadata_ = [f \in FnSet |-> <<>>]
    /\ pre_hooks_ = [f \in FnSet |-> <<>>]
    /\ post_hooks_ = [f \in FnSet |-> <<>>]
    /\ anomaly_metadata_ = [f \in FnSet |-> "nullptr"]
    /\ next_sequence_nr = [t \in Threads |-> 0]
    /\ GradMode_enabled = [t \in Threads |-> TRUE]
    /\ gradient_edge = [v \in DefinedVariables |-> NoEdge]
    /\ out = Out("none", "none", <<>>, <<>>, "none", 0)
    /\ crashed = FALSE
    /\ fcalls = 0
    /\ constructions = <<>>
    /\ added = [f \in FnSet |-> <<>>]
    /\ cleared = {}

Init ==
    /\ FunctionInit
    /\ USE_CUDA \in BOOLEAN
    /\ state = "Disabled"
    /\ next_thread_id = 0
    /\ mutex = NoThread
    /\ all_event_lists = <<>>
    /\ event_list = [t \in Threads |-> FALSE]
    /\ thread_id = [t \in Threads |-> 0]
    /\ lists = [t \in Threads |-> <<>>]
    /\ alive = [t \in Threads |-> TRUE]
    /\ pc = [t \in Threads |-> "idle"]
    /\ frame = [t \in Threads |-> NoFrame]
    /\ err = [t \in Threads |-> "none"]
    /\ rf = [t \in Threads |-> NoScope]
    /\ ops = 0
    /\ registered = [t \in Threads |-> 0]
    /\ calls = [t \in Threads |-> <<>>]
    /\ recorders = {}
    /\ backward_apply_state = [t \in Threads |-> FALSE]
    /\ backward_apply_sequence_nr = [t \in Threads |-> 0]
    /\ faults = {}
    /\ stamps = [lists |-> [t \in Threads |-> <<>>], result |-> <<>>]

\* A thread may start a call: it is between calls and calls are left.
CanCall(t) == pc[t] = "idle" /\ ops < MaxOps

Called == ops' = ops + 1

\* ------------------------------------------------- returning from a call
\* Where a thread continues when the mark, pushRange or popRange it called
\* (frame f) returns: in the caller named by f.ret.
Resume(f) ==
    CASE f.ret = "enable" -> IF f.k > 1 THEN "en_mark" ELSE "idle"
      [] f.ret = "disable" -> "dp_set"
      [] OTHER -> "idle"

\* The RecordFunction scope after its constructor or destructor returns;
\* emitted says whether the pushRange or popRange it called emitted an event.
ScopeAfter(t, f, emitted) ==
    CASE f.ret = "ctor" -> [open |-> TRUE, pushed |-> emitted, popped |-> FALSE]
      [] f.ret = "dtor" -> [rf[t] EXCEPT !.open = FALSE, !.popped = emitted]
      [] OTHER -> rf[t]

Return(t, f, emitted) ==
    /\ pc' = [pc EXCEPT ![t] = Resume(f)]
    /\ frame' = [frame EXCEPT ![t] =
                   IF Resume(f) = "idle" THEN NoFrame
                   ELSE [f EXCEPT !.k = IF f.ret = "enable" THEN @ - 1 ELSE @]]
    /\ rf' = [rf EXCEPT ![t] = ScopeAfter(t, f, emitted)]
    /\ err' = [err EXCEPT ![t] = IF Resume(f) = "idle" THEN "none" ELSE @]

\* An exception leaves every frame of the thread.
Throw(t, what) ==
    /\ pc' = [pc EXCEPT ![t] = "idle"]
    /\ frame' = [frame EXCEPT ![t] = NoFrame]
    /\ err' = [err EXCEPT ![t] = what]
    /\ UNCHANGED rf

\* ------------------------------------------- mark / pushRange / popRange
\* Whether the call returns before getEventList: pushRange and popRange
\* return on Disabled, mark does not; all three leave to NVTX.
Skips(kind) == (kind # "Mark" /\ state = "Disabled") \/ state = "NVTX"

\* The body of mark (kind "Mark"), pushRange and popRange up to the call of
\* getEventList, whose test of event_list is the thread's own.
RangeCall(t, kind, name, inc, ret) ==
    LET f == [frame[t] EXCEPT !.ret = ret, !.kind = kind, !.name = name,
                              !.include_cuda = inc]
    IN  IF Skips(kind)
          THEN /\ IF state = "NVTX" /\ ~USE_CUDA
                    THEN Throw(t, "logic_error: NVTX tracing without CUDA")
                    ELSE Return(t, f, state = "NVTX")
               /\ UNCHANGED <<calls, recorders, faults, stamps>>
          ELSE /\ pc' = [pc EXCEPT ![t] = IF event_list[t] THEN "rec" ELSE "lock"]
               /\ frame' = [frame EXCEPT ![t] = f]
               /\ calls' = [calls EXCEPT ![t] = Append(@, [kind |-> kind, name |-> name])]
               /\ recorders' = recorders \cup {t}
               /\ faults' = IF state = "Disabled"
                             THEN faults \cup {"mark while Disabled"} ELSE faults
               /\ UNCHANGED stamps
               /\ UNCHANGED <<rf, err>>

mark(t, name, include_cuda) ==
    /\ CanCall(t)
    /\ Called
    /\ RangeCall(t, "Mark", name, include_cuda, "user")
    /\ UNCHANGED shared

pushRange(t, name) ==
    /\ CanCall(t)
    /\ Called
    /\ RangeCall(t, "PushRange", name, TRUE, "user")
    /\ UNCHANGED shared

popRange(t) ==
    /\ CanCall(t)
    /\ Called
    /\ RangeCall(t, "PopRange", "", TRUE, "user")
    /\ UNCHANGED shared

\* getEventList, first touch: std::lock_guard guard(all_event_lists_mutex).
getEventListLock(t) ==
    /\ pc[t] = "lock"
    /\ mutex = NoThread
    /\ mutex' = t
    /\ pc' = [pc EXCEPT ![t] = "reg"]
    /\ UNCHANGED <<functions, backward, USE_CUDA, state, lists, alive, registry, frame, err, rf, ops,
                   calls, recorders, faults, stamps>>

\* getEventListRegister with the guard outliving the block: the mutex is still
\* held when the thread goes on to record().
getEventListRegisterKeepsLock(t) ==
    /\ pc[t] = "reg"
    /\ event_list' = [event_list EXCEPT ![t] = TRUE]
    /\ lists' = [lists EXCEPT ![t] = <<>>]
    /\ thread_id' = [thread_id EXCEPT ![t] = next_thread_id]
    /\ next_thread_id' = next_thread_id + 1
    /\ all_event_lists' = <<t>> \o all_event_lists
    /\ registered' = [registered EXCEPT ![t] = @ + 1]
    /\ mutex' = t
    /\ pc' = [pc EXCEPT ![t] = "rec"]
    /\ UNCHANGED <<functions, backward, USE_CUDA, state, alive, frame, err, rf, ops, calls, recorders, faults, stamps>>

\* getEventListRegister with thread_id = next_thread_id, the ++ forgotten.
getEventListRegisterNoIncrement(t) ==
    /\ pc[t] = "reg"
    /\ event_list' = [event_list EXCEPT ![t] = TRUE]
    /\ lists' = [lists EXCEPT ![t] = <<>>]
    /\ thread_id' = [thread_id EXCEPT ![t] = next_thread_id]
    /\ next_thread_id' = next_thread_id
    /\ all_event_lists' = <<t>> \o all_event_lists
    /\ registered' = [registered EXCEPT ![t] = @ + 1]
    /\ mutex' = NoThread
    /\ pc' = [pc EXCEPT ![t] = "rec"]
    /\ UNCHANGED <<functions, backward, USE_CUDA, state, alive, frame, err, rf, ops, calls, recorders, faults, stamps>>

\* getEventList, first touch, under the lock: make_shared, thread_id =
\* next_thread_id++, emplace_front; the guard is released at the block's end.
\* (The uint32_t counter wraps after 2^32 registrations, one per thread ever
\* started: far beyond the threads here, so the increment is the plain one.)
getEventListRegister(t) ==
    /\ pc[t] = "reg"
    /\ event_list' = [event_list EXCEPT ![t] = TRUE]
    /\ lists' = [lists EXCEPT ![t] = <<>>]
    /\ thread_id' = [thread_id EXCEPT ![t] = next_thread_id]
    /\ next_thread_id' = next_thread_id + 1
    /\ all_event_lists' = <<t>> \o all_event_lists
    /\ registered' = [registered EXCEPT ![t] = @ + 1]
    /\ mutex' = NoThread
    /\ pc' = [pc EXCEPT ![t] = "rec"]
    /\ UNCHANGED <<functions, backward, USE_CUDA, state, alive, frame, err, rf, ops, calls, recorders, faults, stamps>>

\* Event with the tag read from the global counter instead of the caller's
\* thread_local thread_id.
EventTaggedByCounter(t) ==
    [kind |-> frame[t].kind, name |-> frame[t].name, thread_id |-> next_thread_id,
     cuda |-> frame[t].include_cuda /\ state = "CUDA"]

\* The event record() constructs: the kind and name of the call, the caller's
\* thread_id, and the CUDA flag read from state as the arguments are passed.
Event(t) ==
    [kind |-> frame[t].kind, name |-> frame[t].name, thread_id |-> thread_id[t],
     cuda |-> frame[t].include_cuda /\ state = "CUDA"]

\* RangeEventList::record: the event goes to the back of the list.
RecordInto(list, e) == Append(list, e)

record(t) ==
    /\ pc[t] = "rec"
    /\ lists' = [lists EXCEPT ![t] = RecordInto(@, Event(t))]
    /\ stamps' = [stamps EXCEPT !.lists[t] =
                     Append(@, IF state = "Disabled" THEN "disabled" ELSE "session")]
    /\ Return(t, frame[t], TRUE)
    /\ UNCHANGED <<functions, backward, USE_CUDA, state, mutex, alive, registry, ops, calls, recorders, faults>>

\* ------------------------------------------------------- RecordFunction
\* RecordFunction::RecordFunction: returns on Disabled, else calls pushRange.
RecordFunction(t, name) ==
    /\ CanCall(t)
    /\ ~rf[t].open
    /\ Called
    /\ IF state = "Disabled"
         THEN /\ rf' = [rf EXCEPT ![t] = [NoScope EXCEPT !.open = TRUE]]
              /\ UNCHANGED <<pc, frame>>
         ELSE /\ pc' = [pc EXCEPT ![t] = "ctor_push"]
              /\ frame' = [frame EXCEPT ![t] = [@ EXCEPT !.name = name]]
              /\ rf' = [rf EXCEPT ![t] = NoScope]
    /\ err' = [err EXCEPT ![t] = "none"]
    /\ UNCHANGED <<shared, calls, recorders, faults, stamps>>

RecordFunctionPush(t) ==
    /\ pc[t] = "ctor_push"
    /\ RangeCall(t, "PushRange", frame[t].name, TRUE, "ctor")
    /\ UNCHANGED <<shared, ops>>

\* RecordFunction::~RecordFunction, on every way out of the scope (return or
\* exception of apply): returns on Disabled, else calls popRange.
RecordFunctionEnd(t) ==
    /\ pc[t] = "idle"
    /\ rf[t].open
    /\ IF state = "Disabled"
         THEN /\ rf' = [rf EXCEPT ![t] = [@ EXCEPT !.open = FALSE]]
              /\ UNCHANGED pc
         ELSE /\ pc' = [pc EXCEPT ![t] = "dtor_pop"]
              /\ UNCHANGED rf
    /\ UNCHANGED <<shared, frame, err, ops, calls, recorders, faults, stamps>>

RecordFunctionPop(t) ==
    /\ pc[t] = "dtor_pop"
    /\ RangeCall(t, "PopRange", "", TRUE, "dtor")
    /\ UNCHANGED <<shared, ops>>

\* set_backward_apply_state with its bool stored into the global state (true
\* is ProfilerState::CPU), as the assignment would do were the parameter not
\* named state.
set_backward_apply_state_global(t, st, backward_apply_nr) ==
    /\ CanCall(t)
    /\ Called
    /\ state' = IF st THEN "CPU" ELSE "Disabled"
    /\ backward_apply_sequence_nr' =
          [backward_apply_sequence_nr EXCEPT ![t] = backward_apply_nr]
    /\ err' = [err EXCEPT ![t] = "none"]
    /\ UNCHANGED <<functions, USE_CUDA, mutex, lists, alive, registry, backward_apply_state,
                   pc, frame, rf, calls, recorders, faults, stamps>>

\* RecordFunction::set_backward_apply_state(bool state, int64_t
\* backward_apply_nr): the parameter named state hides the global state; the
\* two thread_locals are written.
set_backward_apply_state(t, st, backward_apply_nr) ==
    /\ CanCall(t)
    /\ Called
    /\ backward_apply_state' = [backward_apply_state EXCEPT ![t] = st]
    /\ backward_apply_sequence_nr' =
          [backward_apply_sequence_nr EXCEPT ![t] = backward_apply_nr]
    /\ err' = [err EXCEPT ![t] = "none"]
    /\ UNCHANGED <<functions, USE_CUDA, state, mutex, lists, alive, registry, pc, frame, rf,
                   calls, recorders, faults, stamps>>

\* The thread ends: its thread_local event_list releases its reference.
ThreadExit(t) ==
    /\ pc[t] = "idle"
    /\ ~rf[t].open
    /\ pc' = [pc EXCEPT ![t] = "dead"]
    /\ alive' = [alive EXCEPT ![t] = FALSE]
    /\ event_list' = [event_list EXCEPT ![t] = FALSE]
    /\ UNCHANGED <<functions, backward, USE_CUDA, state, mutex, lists, next_thread_id, all_event_lists,
                   thread_id, registered, frame, err, rf, ops, calls, recorders, faults, stamps>>

\* enableProfiler without the check against a running profiler of another kind.
enableProfilerAnyKind(t, new_state) ==
    /\ CanCall(t)
    /\ new_state # "Disabled"
    /\ Called
    /\ IF ~USE_CUDA /\ new_state = "NVTX"
         THEN Throw(t, "runtime_error: Can't use NVTX profiler")
         ELSE /\ pc' = [pc EXCEPT ![t] = "en_set"]
              /\ frame' = [frame EXCEPT ![t] =
                 [@ EXCEPT !.new_state = new_state,
                           !.at_call = [state |-> state, len |-> Len(lists[t])]]]
              /\ err' = [err EXCEPT ![t] = "none"]
              /\ UNCHANGED rf
    /\ UNCHANGED <<shared, calls, recorders, faults, stamps>>

\* enableProfiler with a running profiler taken as an error whatever its kind.
enableProfilerOnce(t, new_state) ==
    /\ CanCall(t)
    /\ new_state # "Disabled"
    /\ Called
    /\ IF ~USE_CUDA /\ new_state = "NVTX"
         THEN Throw(t, "runtime_error: Can't use NVTX profiler")
       ELSE IF state # "Disabled"
         THEN Throw(t, "runtime_error: can't change kind of profiling")
       ELSE /\ pc' = [pc EXCEPT ![t] = "en_set"]
            /\ frame' = [frame EXCEPT ![t] =
                 [@ EXCEPT !.new_state = new_state,
                           !.at_call = [state |-> state, len |-> Len(lists[t])]]]
            /\ err' = [err EXCEPT ![t] = "none"]
            /\ UNCHANGED rf
    /\ UNCHANGED <<shared, calls, recorders, faults, stamps>>

\* ------------------------------------------------------- enableProfiler
\* enableProfiler up to its checks: the NVTX check of a build without CUDA
\* and the check against a running profiler of another kind.  (new_state is
\* never Disabled: AT_ASSERT.)  at_call notes the state and the length of the
\* caller's list as the call finds them.
enableProfiler(t, new_state) ==
    /\ CanCall(t)
    /\ new_state # "Disabled"
    /\ Called
    /\ IF ~USE_CUDA /\ new_state = "NVTX"
         THEN Throw(t, "runtime_error: Can't use NVTX profiler")
       ELSE IF state # "Disabled" /\ new_state # state
         THEN Throw(t, "runtime_error: can't change kind of profiling")
       ELSE /\ pc' = [pc EXCEPT ![t] = "en_set"]
            /\ frame' = [frame EXCEPT ![t] =
                 [@ EXCEPT !.new_state = new_state,
                           !.at_call = [state |-> state, len |-> Len(lists[t])]]]
            /\ err' = [err EXCEPT ![t] = "none"]
            /\ UNCHANGED rf
    /\ UNCHANGED <<shared, calls, recorders, faults, stamps>>

\* state = new_state
enableProfilerSet(t) ==
    /\ pc[t] = "en_set"
    /\ state' = frame[t].new_state
    /\ pc' = [pc EXCEPT ![t] = "en_cuda"]
    /\ stamps' = IF state = "Disabled"
                   THEN [stamps EXCEPT !.lists =
                           [u \in Threads |-> [i \in 1..Len(@[u]) |-> "earlier"]]]
                   ELSE stamps
    /\ UNCHANGED <<functions, backward, USE_CUDA, mutex, lists, alive, registry, frame, err, rf, ops,
                   calls, recorders, faults>>

\* The marks enableProfiler makes: with CUDA, 5 "__cuda_startup" and one
\* "__cuda_start_event" on each device; then "__start_profile".
StartupMarks == 5 * NumDevices
EnableMarks(cuda) == IF cuda THEN StartupMarks + NumDevices + 1 ELSE 1

\* #ifdef USE_CUDA  if (state == ProfilerState::CUDA)
enableProfilerCuda(t) ==
    /\ pc[t] = "en_cuda"
    /\ frame' = [frame EXCEPT ![t] =
                   [@ EXCEPT !.k = EnableMarks(USE_CUDA /\ state = "CUDA")]]
    /\ pc' = [pc EXCEPT ![t] = "en_mark"]
    /\ UNCHANGED <<shared, err, rf, ops, calls, recorders, faults, stamps>>

\* The name of the mark made when k marks are left.
EnableMarkName(k) ==
    IF k = 1 THEN "__start_profile"
    ELSE IF k <= NumDevices + 1 THEN "__cuda_start_event"
    ELSE "__cuda_startup"

enableProfilerMark(t) ==
    /\ pc[t] = "en_mark"
    /\ RangeCall(t, "Mark", EnableMarkName(frame[t].k), frame[t].k # 1, "enable")
    /\ UNCHANGED <<shared, ops>>

\* disableProfiler without the check of state == Disabled.
disableProfilerUnchecked(t) ==
    /\ CanCall(t)
    /\ Called
    /\ pc' = [pc EXCEPT ![t] = "dp_old"]
    /\ err' = [err EXCEPT ![t] = "none"]
    /\ UNCHANGED <<frame, rf>>
    /\ UNCHANGED <<shared, calls, recorders, faults, stamps>>

\* ------------------------------------------------------ disableProfiler
\* if (state == Disabled) throw
disableProfiler(t) ==
    /\ CanCall(t)
    /\ Called
    /\ IF state = "Disabled"
         THEN Throw(t, "runtime_error: can't disable profiler when it's not running")
         ELSE /\ pc' = [pc EXCEPT ![t] = "dp_old"]
              /\ err' = [err EXCEPT ![t] = "none"]
              /\ UNCHANGED <<frame, rf>>
    /\ UNCHANGED <<shared, calls, recorders, faults, stamps>>

\* ProfilerState old_state = state
disableProfilerOld(t) ==
    /\ pc[t] = "dp_old"
    /\ frame' = [frame EXCEPT ![t] = [@ EXCEPT !.old_state = state]]
    /\ pc' = [pc EXCEPT ![t] = "dp_mark"]
    /\ UNCHANGED <<shared, err, rf, ops, calls, recorders, faults, stamps>>

\* mark("__stop_profile")
disableProfilerMark(t) ==
    /\ pc[t] = "dp_mark"
    /\ RangeCall(t, "Mark", "__stop_profile", TRUE, "disable")
    /\ UNCHANGED <<shared, ops>>

\* disableProfilerSet without the return of the NVTX branch: the registry is
\* drained whatever old_state was.
disableProfilerSetAlwaysDrains(t) ==
    /\ pc[t] = "dp_set"
    /\ state' = "Disabled"
    /\ pc' = [pc EXCEPT ![t] = "dp_lock"]
    /\ UNCHANGED <<functions, backward, USE_CUDA, mutex, lists, alive, registry, frame, err, rf, ops,
                   calls, recorders, faults, stamps>>

\* state = Disabled; with old_state NVTX the empty report is returned.
disableProfilerSet(t) ==
    /\ pc[t] = "dp_set"
    /\ state' = "Disabled"
    /\ pc' = [pc EXCEPT ![t] =
                IF frame[t].old_state = "NVTX" THEN "dp_ret" ELSE "dp_lock"]
    /\ UNCHANGED <<functions, backward, USE_CUDA, mutex, lists, alive, registry, frame, err, rf, ops,
                   calls, recorders, faults, stamps>>

\* std::lock_guard guard(all_event_lists_mutex); it = all_event_lists.begin()
\* (at_lock notes the registry as the loop finds it)
disableProfilerLock(t) ==
    /\ pc[t] = "dp_lock"
    /\ mutex = NoThread
    /\ mutex' = t
    /\ frame' = [frame EXCEPT ![t] = [@ EXCEPT !.it = 1, !.at_lock = all_event_lists]]
    /\ pc' = [pc EXCEPT ![t] = "dp_loop"]
    /\ UNCHANGED <<functions, backward, USE_CUDA, state, lists, alive, registry, err, rf, ops, calls,
                   recorders, faults, stamps>>

\* list.use_count(): the registry's reference and the owner's thread_local.
use_count(l) == 1 + (IF alive[l] /\ event_list[l] THEN 1 ELSE 0)

\* Collect with the count off by one: use_count() == 2.
CollectOffByOne(l) == use_count(l) = 2

\* The list is garbage-collected when no thread holds it.
Collect(l) == use_count(l) = 1

Erase(seq, i) == [j \in 1..(Len(seq) - 1) |-> IF j < i THEN seq[j] ELSE seq[j + 1]]

\* Advance with ++it after erase as well: the list behind an erased one is
\* stepped over.
AdvanceAfterErase(it, l) == it + 1

\* The iterator after the turn for list l: erase leaves it on the next list.
Advance(it, l) == IF Collect(l) THEN it ELSE it + 1

\* RangeEventList::consolidate: the events in the order recorded.
consolidate(list) == list

InLoop(t) == pc[t] = "dp_loop" /\ frame[t].it <= Len(all_event_lists)

Current(t) == all_event_lists[frame[t].it]

\* One turn of the loop, with lost the thread (if any) whose record() runs
\* into this turn: result.emplace_back(list->consolidate()), which leaves the
\* list empty; then the list is erased or stepped over.
Turn(t, lost) ==
    LET l == Current(t)
    IN  /\ all_event_lists' =
              IF Collect(l) THEN Erase(all_event_lists, frame[t].it)
              ELSE all_event_lists
        /\ frame' = [u \in Threads |->
              IF u = t
                THEN [frame[t] EXCEPT !.result = Append(@, consolidate(lists[l])),
                                      !.it = Advance(@, l)]
              ELSE IF u \in lost /\ Resume(frame[u]) = "idle" THEN NoFrame
              ELSE frame[u]]
        /\ lists' = [lists EXCEPT ![l] = <<>>]
        /\ stamps' = [lists |-> [stamps.lists EXCEPT ![l] = <<>>],
                      result |-> Append(stamps.result, stamps.lists[l])]
        /\ calls' = [calls EXCEPT ![l] =
              IF pc[l] \in {"lock", "reg", "rec"} /\ l \notin lost
                THEN <<@[Len(@)]>> ELSE <<>>]

disableProfilerConsolidate(t) ==
    /\ InLoop(t)
    /\ Turn(t, {})
    /\ UNCHANGED <<functions, backward, USE_CUDA, state, mutex, alive, next_thread_id, event_list,
                   thread_id, registered, pc, err, rf, ops, recorders, faults>>

\* it == all_event_lists.end(): the loop ends and the result is returned.
disableProfilerEnd(t) ==
    /\ pc[t] = "dp_loop"
    /\ frame[t].it > Len(all_event_lists)
    /\ pc' = [pc EXCEPT ![t] = "dp_ret"]
    /\ UNCHANGED <<shared, frame, err, rf, ops, calls, recorders, faults, stamps>>

\* return: the guard (if taken) is released and the report goes to the caller.
disableProfilerReturn(t) ==
    /\ pc[t] = "dp_ret"
    /\ mutex' = IF mutex = t THEN NoThread ELSE mutex
    /\ pc' = [pc EXCEPT ![t] = "idle"]
    /\ frame' = [frame EXCEPT ![t] = NoFrame]
    /\ recorders' = {u \in Threads : pc[u] \in {"lock", "reg", "rec"}}
    /\ stamps' = [stamps EXCEPT !.result = <<>>]
    /\ UNCHANGED <<functions, backward, USE_CUDA, state, lists, alive, registry, err, rf, ops, calls,
                   faults>>

\* record() of thread t running while disableProfiler of thread d consolidates
\* the same list, with no lock between them (a data race): beside the two
\* orders the separate steps give, the event may end in neither the report
\* nor the list.
RaceRecordConsolidate(t, d) ==
    /\ pc[t] = "rec"
    /\ d # t
    /\ InLoop(d)
    /\ Current(d) = t
    /\ Turn(d, {t})
    /\ pc' = [pc EXCEPT ![t] = Resume(frame[t])]
    /\ rf' = [rf EXCEPT ![t] = ScopeAfter(t, frame[t], TRUE)]
    /\ err' = [err EXCEPT ![t] = "none"]
    /\ faults' = faults \cup {"event lost"}
    /\ UNCHANGED <<functions, backward, USE_CUDA, state, mutex, alive, next_thread_id, event_list,
                   thread_id, registered, ops, recorders>>

\* ------------------------------------------------------------------ Next
Next ==
    \/ \E t \in Workers : mark(t, "a", TRUE)
    \/ \E t \in Workers, n \in Names : pushRange(t, n)
    \/ \E t \in Workers : popRange(t)
    \/ \E t \in Threads : getEventListLock(t)
    \/ \E t \in Threads : getEventListRegister(t)
    \/ \E t \in Threads : record(t)
    \/ \E t \in Workers : RecordFunction(t, "a")
    \/ \E t \in Workers : RecordFunctionPush(t)
    \/ \E t \in Workers : RecordFunctionEnd(t)
    \/ \E t \in Workers : RecordFunctionPop(t)
    \/ \E t \in Workers : set_backward_apply_state(t, TRUE, 1)
    \/ \E t \in Workers : ThreadExit(t)
    \/ \E s \in ProfilerState : enableProfiler(Main, s)
    \/ enableProfilerSet(Main)
    \/ enableProfilerCuda(Main)
    \/ enableProfilerMark(Main)
    \/ disableProfiler(Main)
    \/ disableProfilerOld(Main)
    \/ disableProfilerMark(Main)
    \/ disableProfilerSet(Main)
    \/ disableProfilerLock(Main)
    \/ disableProfilerConsolidate(Main)
    \/ disableProfilerEnd(Main)
    \/ disableProfilerReturn(Main)
    \/ \E t \in Workers : RaceRecordConsolidate(t, Main)

Spec == Init /\ [][Next]_vars

\* ============================================================== Functions
\* What the profiler owns: no call on a Function, other than operator(),
\* touches it.
profiler == <<USE_CUDA, state, next_thread_id, mutex, all_event_lists, event_list,
              thread_id, lists, alive, pc, frame, err, rf, ops, registered, calls,
              recorders, backward, faults, stamps>>

\* A call may be made: the process runs and calls are left.
MayCall == ~crashed /\ fcalls < MaxCalls

Counted == fcalls' = fcalls + 1

\* The members of a Function no constructor argument sets.
node == <<pre_hooks_, post_hooks_, input_metadata_>>

\* The object the next constructor call constructs.
IsNext(f) == \E i \in 1..Len(Fns) : Fns[i] = f /\ Len(constructions) = i - 1

\* static uint64_t& get_next_sequence_nr(): the calling thread's counter.
get_next_sequence_nr(t) == next_sequence_nr[t]

\* Function(uint64_t sequence_nr, edge_list&& next_edges), by thread t, with
\* auto telling whether the delegating constructor called it.
Construct(t, f, sequence_nr, next_edges, auto) ==
    /\ built' = built \cup {f}
    /\ sequence_nr_' = [sequence_nr_ EXCEPT ![f] = sequence_nr]
    /\ next_edges_' = [next_edges_ EXCEPT ![f] = next_edges]
    /\ anomaly_metadata_' = [anomaly_metadata_ EXCEPT ![f] =
            IF AnomalyMode_enabled THEN "stack" ELSE "nullptr"]
    /\ constructions' = Append(constructions, [fn |-> f, thread |-> t, auto |-> auto])
    /\ out' = Out("Function", f, <<>>, sequence_nr, "none", 0)
    /\ UNCHANGED <<AnomalyMode_enabled, node, GradMode_enabled, gradient_edge,
                   crashed, added, cleared>>

FunctionWithSequenceNr(t, f, sequence_nr, next_edges) ==
    /\ MayCall
    /\ IsNext(f)
    /\ Counted
    /\ Construct(t, f, sequence_nr, next_edges, FALSE)
    /\ UNCHANGED <<next_sequence_nr, profiler>>

\* Function(edge_list&&) with get_next_sequence_nr() and no ++: every node of
\* the thread gets the same number.
FunctionNoIncrement(t, f, next_edges) ==
    /\ MayCall
    /\ IsNext(f)
    /\ Counted
    /\ Construct(t, f, get_next_sequence_nr(t), next_edges, TRUE)
    /\ UNCHANGED <<next_sequence_nr, profiler>>

\* Function(edge_list&& next_edges) : Function(get_next_sequence_nr()++, ...)
\* (the uint64_t counter cannot wrap within the constructions made here)
Function(t, f, next_edges) ==
    /\ MayCall
    /\ IsNext(f)
    /\ Counted
    /\ Construct(t, f, get_next_sequence_nr(t), next_edges, TRUE)
    /\ next_sequence_nr' = [next_sequence_nr EXCEPT ![t] = @ + 1]
    /\ UNCHANGED profiler

\* AnomalyMode::set_enabled
AnomalyMode_set_enabled(enabled) ==
    /\ MayCall
    /\ Counted
    /\ AnomalyMode_enabled' = enabled
    /\ out' = Out("AnomalyMode::set_enabled", "none", enabled, <<>>, "none", 0)
    /\ UNCHANGED <<built, sequence_nr_, next_edges_, node, anomaly_metadata_,
                   next_sequence_nr, GradMode_enabled, gradient_edge, crashed,
                   constructions, added, cleared, profiler>>

\* What a call on node f that changes only its input metadata leaves alone.
inputs_only == <<AnomalyMode_enabled, built, sequence_nr_, next_edges_, pre_hooks_,
                 post_hooks_, anomaly_metadata_, next_sequence_nr, GradMode_enabled,
                 crashed, constructions, cleared, profiler>>

\* AddInput with the size read after emplace_back.
AddInputSizeAfter(f, metadata, flavour, given) ==
    LET input_nr == Len(input_metadata_[f]) + 1
    IN  /\ input_metadata_' = [input_metadata_ EXCEPT ![f] = Append(@, metadata)]
        /\ added' = [added EXCEPT ![f] =
              Append(@, [flavour |-> flavour, given |-> given, input_nr |-> input_nr])]

\* uint32_t input_nr = input_metadata_.size(); emplace_back(...); return
\* input_nr (sizes here are far below 2^32); flavour and given are noted in
\* added.
AddInput(f, metadata, flavour, given) ==
    LET input_nr == Len(input_metadata_[f])
    IN  /\ input_metadata_' = [input_metadata_ EXCEPT ![f] = Append(@, metadata)]
        /\ added' = [added EXCEPT ![f] =
              Append(@, [flavour |-> flavour, given |-> given, input_nr |-> input_nr])]

add_input_metadata(f, type, shape, device) ==
    /\ MayCall
    /\ f \in built
    /\ Counted
    /\ AddInput(f, InputMetadata(type, shape, device), "type",
                <<type, shape, device>>)
    /\ out' = Out("add_input_metadata", f, "type", Len(input_metadata_[f]), "none", 0)
    /\ UNCHANGED <<inputs_only, gradient_edge>>

add_input_metadata_tensor(f, variable) ==
    /\ MayCall
    /\ f \in built
    /\ Counted
    /\ AddInput(f, InputMetadataOf(Tensor(variable)), "tensor", variable)
    /\ out' = Out("add_input_metadata", f, "tensor", Len(input_metadata_[f]), "none", 0)
    /\ UNCHANGED <<inputs_only, gradient_edge>>

add_input_metadata_undefined(f) ==
    /\ MayCall
    /\ f \in built
    /\ Counted
    /\ AddInput(f, InputMetadataNone, "undefined", <<>>)
    /\ out' = Out("add_input_metadata", f, "undefined", Len(input_metadata_[f]), "none", 0)
    /\ UNCHANGED <<inputs_only, gradient_edge>>

\* What a call that only returns a value leaves alone.
unqueried == <<AnomalyMode_enabled, built, sequence_nr_, next_edges_, node,
               anomaly_metadata_, next_sequence_nr, GradMode_enabled, gradient_edge,
               constructions, added, cleared, profiler>>

Query(f, result) ==
    /\ MayCall
    /\ f \in built
    /\ Counted
    /\ out' = result
    /\ UNCHANGED <<unqueried, crashed>>

\* operator[] with index >= size(): undefined behaviour.  The read returns
\* whatever lies behind the elements, or the process is ended; no exception
\* is thrown.
OutOfBounds(op, f, index) ==
    /\ MayCall
    /\ f \in built
    /\ Counted
    /\ \/ out' = Out(op, f, index, "garbage", "none", 0) /\ UNCHANGED crashed
       \/ out' = Out(op, f, index, <<>>, "crash", 0) /\ crashed' = TRUE
    /\ UNCHANGED unqueried

num_inputs(f) ==
    /\ f \in built
    /\ Query(f, Out("num_inputs", f, <<>>, Len(input_metadata_[f]), "none", 0))

\* return input_metadata_[index]
input_metadata(f, index) ==
    IF index < Len(input_metadata_[f])
      THEN Query(f, Out("input_metadata", f, index, input_metadata_[f][index + 1],
                        "none", 0))
      ELSE OutOfBounds("input_metadata", f, index)

\* input_metadata_.clear()
clear_input_metadata(f) ==
    /\ MayCall
    /\ f \in built
    /\ Counted
    /\ input_metadata_' = [input_metadata_ EXCEPT ![f] = <<>>]
    /\ cleared' = cleared \cup {f}
    /\ out' = Out("clear_input_metadata", f, <<>>, <<>>, "none", 0)
    /\ UNCHANGED <<AnomalyMode_enabled, built, sequence_nr_, next_edges_, pre_hooks_,
                   post_hooks_, anomaly_metadata_, next_sequence_nr, GradMode_enabled,
                   gradient_edge, crashed, constructions, added, profiler>>


\* ---------------------------------------------------------- next edges
\* return next_edges_[index]
next_edge(f, index) ==
    IF index < Len(next_edges_[f])
      THEN Query(f, Out("next_edge", f, index, next_edges_[f][index + 1], "none", 0))
      ELSE OutOfBounds("next_edge", f, index)

\* What a call on node f that changes only its next edges leaves alone.
edges_only == <<AnomalyMode_enabled, built, sequence_nr_, node, anomaly_metadata_,
                next_sequence_nr, GradMode_enabled, gradient_edge, constructions,
                added, cleared, profiler>>

\* next_edges_[index] = std::move(edge); with index >= size() the write is
\* undefined behaviour: it lands behind the elements, where no accessor sees
\* it, or the process is ended.
set_next_edge(f, index, edge) ==
    /\ MayCall
    /\ f \in built
    /\ Counted
    /\ IF index < Len(next_edges_[f])
         THEN /\ next_edges_' = [next_edges_ EXCEPT ![f][index + 1] = edge]
              /\ out' = Out("set_next_edge", f, index, <<>>, "none", 0)
              /\ UNCHANGED crashed
         ELSE /\ UNCHANGED next_edges_
              /\ \/ out' = Out("set_next_edge", f, index, <<>>, "none", 0)
                    /\ UNCHANGED crashed
                 \/ out' = Out("set_next_edge", f, index, <<>>, "crash", 0)
                    /\ crashed' = TRUE
    /\ UNCHANGED edges_only

\* next_edges_.push_back(std::move(edge))
add_next_edge(f, edge) ==
    /\ MayCall
    /\ f \in built
    /\ Counted
    /\ next_edges_' = [next_edges_ EXCEPT ![f] = Append(@, edge)]
    /\ out' = Out("add_next_edge", f, <<>>, <<>>, "none", 0)
    /\ UNCHANGED <<edges_only, crashed>>

\* next_edges_ = std::move(next_edges)
set_next_edges(f, next_edges) ==
    /\ MayCall
    /\ f \in built
    /\ Counted
    /\ next_edges_' = [next_edges_ EXCEPT ![f] = next_edges]
    /\ out' = Out("set_next_edges", f, <<>>, <<>>, "none", 0)
    /\ UNCHANGED <<edges_only, crashed>>

num_outputs(f) ==
    /\ f \in built
    /\ Query(f, Out("num_outputs", f, <<>>, Len(next_edges_[f]), "none", 0))

sequence_nr(f) ==
    /\ f \in built
    /\ Query(f, Out("sequence_nr", f, <<>>, sequence_nr_[f], "none", 0))

\* ShouldComputeOutput without the AT_CHECK: an index out of range is
\* answered false.
ShouldComputeOutputUnchecked(f, output_edge_index) ==
    IF output_edge_index < Len(next_edges_[f])
      THEN [error |-> "none", value |-> is_valid(next_edges_[f][output_edge_index + 1])]
      ELSE [error |-> "none", value |-> FALSE]

\* should_compute_output(size_t): AT_CHECK(output_edge_index < num_outputs(),
\* "Index out of range"); return next_edges_[output_edge_index].is_valid()
ShouldComputeOutput(f, output_edge_index) ==
    IF output_edge_index < Len(next_edges_[f])
      THEN [error |-> "none", value |-> is_valid(next_edges_[f][output_edge_index + 1])]
      ELSE [error |-> "Index out of range", value |-> FALSE]

should_compute_output(f, output_edge_index) ==
    /\ f \in built
    /\ LET r == ShouldComputeOutput(f, output_edge_index)
       IN  Query(f, Out("should_compute_output", f, output_edge_index, r.value,
                        r.error, 0))

\* RangeLoop with i <= range.second: the range taken as closed.
RECURSIVE RangeLoopClosed(_, _, _)
RangeLoopClosed(f, i, second) ==
    IF i > second THEN [error |-> "none", value |-> FALSE]
    ELSE LET r == ShouldComputeOutput(f, i)
         IN  IF r.error # "none" \/ r.value THEN r ELSE RangeLoopClosed(f, i + 1, second)

\* The lambda of should_compute_output(initializer_list<IndexRange>), from i
\* on: for (i = range.first; i < range.second; i++) if
\* (should_compute_output(i)) return true; return false.  An exception of
\* should_compute_output(i) leaves the loop.
RECURSIVE RangeLoop(_, _, _)
RangeLoop(f, i, second) ==
    IF i >= second THEN [error |-> "none", value |-> FALSE]
    ELSE LET r == ShouldComputeOutput(f, i)
         IN  IF r.error # "none" \/ r.value THEN r ELSE RangeLoop(f, i + 1, second)

\* std::any_of(idxs.begin(), idxs.end(), lambda), from the k-th range on.
RECURSIVE AnyOf(_, _, _)
AnyOf(f, idxs, k) ==
    IF k > Len(idxs) THEN [error |-> "none", value |-> FALSE]
    ELSE LET r == RangeLoop(f, idxs[k][1], idxs[k][2])
         IN  IF r.error # "none" \/ r.value THEN r ELSE AnyOf(f, idxs, k + 1)

should_compute_output_ranges(f, idxs) ==
    /\ f \in built
    /\ LET r == AnyOf(f, idxs, 1)
       IN  Query(f, Out("should_compute_output_ranges", f, idxs, r.value, r.error, 0))

\* ----------------------------------------------------------------- hooks
hooks_only == <<AnomalyMode_enabled, built, sequence_nr_, next_edges_,
                input_metadata_, anomaly_metadata_, next_sequence_nr,
                GradMode_enabled, gradient_edge, crashed, constructions, added,
                cleared, profiler>>

\* pre_hooks_.push_back(std::move(pre_hook))
add_pre_hook(f, pre_hook) ==
    /\ MayCall
    /\ f \in built
    /\ Counted
    /\ pre_hooks_' = [pre_hooks_ EXCEPT ![f] = Append(@, pre_hook)]
    /\ out' = Out("add_pre_hook", f, pre_hook, <<>>, "none", 0)
    /\ UNCHANGED <<hooks_only, post_hooks_>>

\* post_hooks_.push_back(std::move(post_hook))
add_post_hook(f, post_hook) ==
    /\ MayCall
    /\ f \in built
    /\ Counted
    /\ post_hooks_' = [post_hooks_ EXCEPT ![f] = Append(@, post_hook)]
    /\ out' = Out("add_post_hook", f, post_hook, <<>>, "none", 0)
    /\ UNCHANGED <<hooks_only, pre_hooks_>>

\* -------------------------------------------------------- free functions
\* GradMode::set_enabled, of the calling thread
GradMode_set_enabled(t, enabled) ==
    /\ MayCall
    /\ Counted
    /\ GradMode_enabled' = [GradMode_enabled EXCEPT ![t] = enabled]
    /\ out' = Out("GradMode::set_enabled", "none", enabled, <<>>, "none", 0)
    /\ UNCHANGED <<AnomalyMode_enabled, built, sequence_nr_, next_edges_, node,
                   anomaly_metadata_, next_sequence_nr, gradient_edge, crashed,
                   constructions, added, cleared, profiler>>

\* create_gradient_edge with the slot read after the add
\* (function->num_inputs()) instead of add_input_metadata's return value.
create_gradient_edge_slot_after(variable, function) ==
    /\ MayCall
    /\ function \in built
    /\ Counted
    /\ AddInput(function, InputMetadataOf(Tensor(variable)), "tensor", variable)
    /\ gradient_edge' = [gradient_edge EXCEPT ![variable] =
                            Edge(function, Len(input_metadata_[function]) + 1)]
    /\ out' = Out("create_gradient_edge", function, variable, <<>>, "none", 0)
    /\ UNCHANGED inputs_only

\* input_nr = function->add_input_metadata(variable);
\* variable.set_gradient_edge({std::move(function), input_nr})
create_gradient_edge(variable, function) ==
    /\ MayCall
    /\ function \in built
    /\ Counted
    /\ AddInput(function, InputMetadataOf(Tensor(variable)), "tensor", variable)
    /\ gradient_edge' = [gradient_edge EXCEPT ![variable] =
                            Edge(function, Len(input_metadata_[function]))]
    /\ out' = Out("create_gradient_edge", function, variable, <<>>, "none", 0)
    /\ UNCHANGED inputs_only

\* The arguments of collect_next_edges: single Variables and groups of them.
One(variable) == [group |-> FALSE, items |-> <<variable>>]
Group(variables) == [group |-> TRUE, items |-> variables]

SomeArguments ==
    {<<>>, <<One("v"), One("w")>>, <<One("w"), One("v")>>, <<One("u"), One("v")>>,
     <<Group(<<"v", "u">>), One("w")>>, <<Group(<<>>), One("u")>>}

\* IterArgs::apply: operator() on each argument in order, and for a group on
\* each of its items in order; the Variables visited, from the k-th argument.
RECURSIVE Visit(_, _)
Visit(arguments, k) ==
    IF k > Len(arguments) THEN <<>>
    ELSE arguments[k].items \o Visit(arguments, k + 1)

\* MakeNextFunctionList::operator()(const Variable&): the edge pushed.
MakeNextFunctionList(variable) ==
    IF variable \in DefinedVariables THEN gradient_edge[variable] ELSE NoEdge

\* collect_next_edges with the test of GradMode left out.
collect_next_edges_any_mode(t, arguments) ==
    LET visited == Visit(arguments, 1)
    IN  /\ MayCall
        /\ Counted
        /\ out' = Out("collect_next_edges", "none", arguments,
                      [i \in 1..Len(visited) |-> MakeNextFunctionList(visited[i])],
                      "none", Len(visited))
        /\ UNCHANGED <<unqueried, crashed>>

\* if (!GradMode::is_enabled()) return {}; make.apply(variables...);
\* return make.next_edges
collect_next_edges(t, arguments) ==
    LET visited == IF GradMode_enabled[t] THEN Visit(arguments, 1) ELSE <<>>
    IN  /\ MayCall
        /\ Counted
        /\ out' = Out("collect_next_edges", "none", arguments,
                      [i \in 1..Len(visited) |-> MakeNextFunctionList(visited[i])],
                      "none", Len(visited))
        /\ UNCHANGED <<unqueried, crashed>>

\* ---------------------------------------------------------- FunctionNext
\* The ranges should_compute_output is called with.
IndexRanges == {<<0, 0>>, <<0, 2>>, <<1, 3>>, <<2, 4>>}
SomeRangeLists ==
    {<<>>} \cup {<<r>> : r \in IndexRanges}
           \cup {<<r, q>> : r \in IndexRanges, q \in IndexRanges}

FunctionNext ==
    \/ \E t \in Threads, f \in FnSet, e \in SomeEdgeLists : Function(t, f, e)
    \/ \E t \in Threads, f \in FnSet : FunctionWithSequenceNr(t, f, 0, <<>>)
    \/ \E b \in BOOLEAN : AnomalyMode_set_enabled(b)
    \/ \E f \in FnSet : add_input_metadata(f, "CPUFloatType", <<4>>, -1)
    \/ \E f \in FnSet, v \in DefinedVariables : add_input_metadata_tensor(f, v)
    \/ \E f \in FnSet : add_input_metadata_undefined(f)
    \/ \E f \in FnSet : clear_input_metadata(f)
    \/ \E f \in FnSet : num_inputs(f)
    \/ \E f \in FnSet, i \in 0..MaxIndex : input_metadata(f, i)
    \/ \E f \in FnSet, i \in 0..MaxIndex : next_edge(f, i)
    \/ \E f \in FnSet, i \in 0..MaxIndex, e \in SomeEdges : set_next_edge(f, i, e)
    \/ \E f \in FnSet, e \in SomeEdges : add_next_edge(f, e)
    \/ \E f \in FnSet, e \in SomeEdgeLists : set_next_edges(f, e)
    \/ \E f \in FnSet : num_outputs(f)
    \/ \E f \in FnSet : sequence_nr(f)
    \/ \E f \in FnSet, i \in 0..MaxIndex : should_compute_output(f, i)
    \/ \E f \in FnSet, idxs \in SomeRangeLists : should_compute_output_ranges(f, idxs)
    \/ \E f \in FnSet : add_pre_hook(f, "hook")
    \/ \E f \in FnSet : add_post_hook(f, "hook")
    \/ \E b \in BOOLEAN : GradMode_set_enabled(Main, b)
    \/ \E v \in DefinedVariables, f \in FnSet : create_gradient_edge(v, f)
    \/ \E a \in SomeArguments : collect_next_edges(Main, a)

\* function.h has no #ifdef USE_CUDA: one build is enough.
FunctionSpecInit == Init /\ ~USE_CUDA

FunctionSpec == FunctionSpecInit /\ [][FunctionNext]_vars

\* ================================================================ claims
InRegistry(l) == \E i \in 1..Len(all_event_lists) : all_event_lists[i] = l

\* A thread inside getEventList or about to call record(): past the checks of
\* state of mark, pushRange or popRange, its record() not yet complete.
Recording(t) == pc[t] \in {"lock", "reg", "rec"}

\* The calls whose record() is complete, of those noted in calls[t].
Completed(t) ==
    IF Recording(t) THEN SubSeq(calls[t], 1, Len(calls[t]) - 1) ELSE calls[t]

Proj(evs) == [i \in 1..Len(evs) |-> [kind |-> evs[i].kind, name |-> evs[i].name]]

\* A turn of the consolidation loop of thread d is taken in this step.
TurnTaken(d) == Len(frame'[d].result) = Len(frame[d].result) + 1

AtReport(d) == pc[d] = "dp_ret" /\ Sampling(frame[d].old_state)

\* ---------------------------------------------------------------------- C1
\* C1 (as claimed): while state is Disabled, a call of mark, pushRange or
\* popRange returns at once: the calling thread never goes on to
\* getEventList, so no list is created or registered, no thread id assigned,
\* no lock taken, no event recorded.
C1_DisabledCallsRecordNothing ==
    [][\A t \in Threads :
         (state = "Disabled" /\ pc[t] = "idle") => ~Recording(t)']_vars

\* ---------------------------------------------------------------------- C2
\* C2 (as claimed): once a RecordFunction scope has ended, it has emitted a
\* pop if and only if it emitted a push.
C2_ScopesBalanced ==
    \A t \in Threads :
        (pc[t] \in {"idle", "dead"} /\ ~rf[t].open) => (rf[t].popped <=> rf[t].pushed)

\* ---------------------------------------------------------------------- C3
\* C3 (as claimed): the report of a disableProfiler from a sampling state has
\* no entry for a thread that called no recording function in this session
\* (counted generously: since the last report was returned), in a run where
\* no mark was made with the profiler off and no event was lost.
C3_NoEntryWithoutRecording ==
    (AtReport(Main) /\ faults = {})
        => Len(frame[Main].result) <= Cardinality(recorders)

\* C3 (amended): the report has exactly one entry per event list that was in
\* the registry when the consolidation began, in registry order, whether or
\* not its thread recorded anything in this session; the entry holds only
\* events tagged with that thread's id, and is made of the calls that thread
\* completed since its list was last consolidated, in the order it made them.
C3_ReportPerRegisteredList ==
    /\ [](AtReport(Main) =>
            /\ Len(frame[Main].result) = Len(frame[Main].at_lock)
            /\ \A i \in 1..Len(frame[Main].result) :
                 \A j \in 1..Len(frame[Main].result[i]) :
                    frame[Main].result[i][j].thread_id
                        = thread_id[frame[Main].at_lock[i]])
    /\ [][\A d \in Threads :
            TurnTaken(d) =>
                Proj(frame'[d].result[Len(frame'[d].result)]) = Completed(Current(d))]_vars

\* C3 witness: a report with an entry of several events and an empty entry,
\* that of a live thread that recorded nothing in this session.
C3_Witness ==
    /\ AtReport(Main)
    /\ \E i, j \in 1..Len(frame[Main].result) :
         /\ frame[Main].result[i] = <<>>
         /\ Len(frame[Main].result[j]) >= 2
    /\ \E w \in Workers : alive[w] /\ w \notin recorders /\ InRegistry(w)

\* ---------------------------------------------------------------------- C4
\* C4 (as claimed): disableProfiler is never in the turn of its loop for a
\* list while the list's owner is between its check of state and the end of
\* its record() (in a run where no mark was made with the profiler off).
C4_NoRecordDuringConsolidate ==
    faults = {} =>
        \A d, t \in Threads : ~(InLoop(d) /\ Current(d) = t /\ Recording(t))

\* ---------------------------------------------------------------------- C5
\* C5: disableProfiler called while state is Disabled throws and changes
\* nothing: state stays Disabled, no thread moves, no event is recorded, the
\* registry, the lists and the mutex are as they were.
C5_DisableWhenDisabledFails ==
    [][\A t \in Threads :
         (state = "Disabled" /\ disableProfiler(t)) =>
            /\ err'[t] = "runtime_error: can't disable profiler when it's not running"
            /\ pc' = pc
            /\ UNCHANGED <<state, lists, registry, mutex, calls>>]_vars

\* C5 witness: a second disableProfiler, after a session, has thrown.
C5_Witness ==
    /\ err[Main] = "runtime_error: can't disable profiler when it's not running"
    /\ state = "Disabled"
    /\ InRegistry(Main)

\* ---------------------------------------------------------------------- C6
\* C6: enableProfiler(s) called while the profiler runs in another state
\* throws and changes nothing: state keeps the first kind, no thread moves, no
\* "__start_profile" is recorded, the registry, the lists and the mutex are as
\* they were.
C6_EnableOtherKindFails ==
    [][\A t \in Threads, s \in ProfilerState \ {"Disabled"} :
         (state # "Disabled" /\ s # state /\ enableProfiler(t, s)) =>
            /\ err'[t] \in {"runtime_error: can't change kind of profiling",
                            "runtime_error: Can't use NVTX profiler"}
            /\ pc' = pc
            /\ UNCHANGED <<state, lists, registry, mutex, calls>>]_vars

\* C6 witness: enableProfiler of another kind has thrown in a running session.
C6_Witness ==
    /\ err[Main] = "runtime_error: can't change kind of profiling"
    /\ Sampling(state)
    /\ Len(lists[Main]) >= 1

\* ---------------------------------------------------------------------- C7
\* C7: a live thread's list is in the registry in every state; a list leaves
\* the registry only in its turn of the consolidation loop of a
\* disableProfiler from a sampling state, and only when its thread has
\* exited; and every list whose thread has exited leaves it in its turn.
C7_CollectedIffUnheld ==
    /\ [](\A t \in Threads : (alive[t] /\ event_list[t]) => InRegistry(t))
    /\ [][\A l \in Threads :
            /\ (InRegistry(l) /\ ~InRegistry(l)') =>
                  \E d \in Threads :
                     /\ InLoop(d) /\ Current(d) = l /\ TurnTaken(d)
                     /\ Sampling(frame[d].old_state)
                     /\ use_count(l) = 1
                     /\ ~alive[l]
            /\ (\E d \in Threads : InLoop(d) /\ Current(d) = l /\ TurnTaken(d)
                                   /\ ~alive[l])
                  => ~InRegistry(l)']_vars

\* C7 witness: the report is ready, the exited worker's list is gone from the
\* registry and the main thread's list is still there.
C7_Witness ==
    /\ AtReport(Main)
    /\ InRegistry(Main)
    /\ \E w \in Workers : ~alive[w] /\ registered[w] = 1 /\ ~InRegistry(w)
    /\ Len(frame[Main].result) = 2

\* ---------------------------------------------------------------------- C8
\* C8: a call of mark, pushRange or popRange that completes in a sampling
\* state appends exactly one event to the caller's list, of the call's kind
\* and name and tagged with the caller's thread id, and nothing to another
\* list; and in every state each thread's list holds exactly the events of the
\* calls the thread completed since the list was last consolidated, in call
\* order, each tagged with the thread's id.  So pushRange("a");
\* pushRange("b"); popRange(); popRange() in a sampling state appends
\* PushRange(a), PushRange(b), PopRange, PopRange to the caller's list.
C8_ListHoldsOwnCallsInOrder ==
    /\ [](\A t \in Threads :
            /\ Proj(lists[t]) = Completed(t)
            /\ \A i \in 1..Len(lists[t]) : lists[t][i].thread_id = thread_id[t])
    /\ [][\A t \in Threads :
            (pc[t] = "rec" /\ pc'[t] # "rec" /\ Sampling(state)) =>
                /\ lists'[t] = Append(lists[t],
                       [kind |-> frame[t].kind, name |-> frame[t].name,
                        thread_id |-> thread_id[t],
                        cuda |-> frame[t].include_cuda /\ state = "CUDA"])
                /\ \A u \in Threads \ {t} : lists'[u] = lists[u]]_vars

\* C8 witness: a worker with a non-zero thread id has made the four calls in
\* a sampling state and its list holds the four events.
C8_Witness ==
    \E w \in Workers :
        /\ pc[w] = "idle"
        /\ Sampling(state)
        /\ thread_id[w] = 1
        /\ Proj(lists[w]) = <<[kind |-> "PushRange", name |-> "a"],
                              [kind |-> "PushRange", name |-> "b"],
                              [kind |-> "PopRange", name |-> ""],
                              [kind |-> "PopRange", name |-> ""]>>
        /\ \A i \in 1..4 : lists[w][i].thread_id = 1
        /\ \A i \in 1..Len(lists[Main]) : lists[Main][i].kind = "Mark"

\* ---------------------------------------------------------------------- C9
\* C9: the mutex is held only by a thread registering its list on first
\* touch or by disableProfiler from its lock to its return; a thread about
\* to record does not hold it; no thread registers twice.
C9_MutexOnlyForRegistry ==
    /\ mutex # NoThread => pc[mutex] \in {"reg", "dp_loop", "dp_ret"}
    /\ \A t \in Threads : pc[t] = "rec" => mutex # t
    /\ \A t \in Threads : registered[t] <= 1

\* C9 witness: a worker records into the list it created earlier, while the
\* mutex is free.
C9_Witness ==
    \E w \in Workers :
        pc[w] = "rec" /\ registered[w] = 1 /\ Len(lists[w]) >= 1 /\ mutex = NoThread

\* --------------------------------------------------------------------- C10
RECURSIVE Sum(_, _)
Sum(f, S) == IF S = {} THEN 0
             ELSE LET x == CHOOSE y \in S : TRUE IN f[x] + Sum(f, S \ {x})

\* C10: a thread's id is assigned once, by the thread holding the mutex, from
\* next_thread_id, which then grows by one and never shrinks; registered
\* threads have distinct ids; next_thread_id counts the lists ever registered.
C10_ThreadIdsUnique ==
    /\ [](/\ next_thread_id = Sum(registered, Threads)
          /\ \A t \in Threads : registered[t] <= 1
          /\ \A t, u \in Threads :
               (t # u /\ registered[t] = 1 /\ registered[u] = 1)
                   => thread_id[t] # thread_id[u])
    /\ [][/\ next_thread_id' >= next_thread_id
          /\ \A t \in Threads :
               (thread_id'[t] # thread_id[t] \/ registered'[t] # registered[t]) =>
                  /\ mutex = t
                  /\ registered[t] = 0
                  /\ thread_id'[t] = next_thread_id
                  /\ next_thread_id' = next_thread_id + 1]_vars

\* C10 witness: both threads have registered; their ids are 0 and 1.
C10_Witness ==
    /\ Len(all_event_lists) = Cardinality(Threads)
    /\ next_thread_id = Cardinality(Threads)
    /\ \E w \in Workers : thread_id[w] # thread_id[Main]

\* --------------------------------------------------------------------- C11
\* C11: the global state changes only in the assignment of enableProfiler,
\* to its argument, which is not Disabled, and in the assignment of
\* disableProfiler, to Disabled: no step of mark, pushRange, popRange,
\* RecordFunction, ~RecordFunction or set_backward_apply_state changes it.
\* An enableProfiler(s) that returns leaves state s and a disableProfiler
\* that returns leaves it Disabled.
C11_StateOnlyByEnableDisable ==
    [][/\ state' # state =>
             \E t \in Threads :
                \/ /\ pc[t] = "en_set" /\ pc'[t] = "en_cuda"
                   /\ state' = frame[t].new_state
                   /\ state' # "Disabled"
                \/ /\ pc[t] = "dp_set" /\ pc'[t] \in {"dp_ret", "dp_lock"}
                   /\ state' = "Disabled"
       /\ \A t \in Threads :
             /\ (pc[t] = "dp_ret" /\ pc'[t] = "idle") => state' = "Disabled"
             /\ ((pc[t] = "en_mark" \/ (pc[t] = "rec" /\ frame[t].ret = "enable"))
                    /\ pc'[t] = "idle" /\ err'[t] = "none")
                  => (state' = frame[t].new_state /\ state' # "Disabled")]_vars

\* C11 witness: a session has been run and ended, a worker has recorded an
\* event and called set_backward_apply_state(true, 1), and state is Disabled.
C11_Witness ==
    /\ state = "Disabled"
    /\ pc[Main] = "idle"
    /\ err[Main] = "none"
    /\ InRegistry(Main)
    /\ \E w \in Workers :
         backward_apply_state[w] /\ backward_apply_sequence_nr[w] = 1 /\ InRegistry(w)

\* --------------------------------------------------------------------- C20
\* The thread is in a disableProfiler that found state NVTX.
InNvtxDisable(d) ==
    \/ pc[d] = "dp_old" /\ state = "NVTX"
    \/ /\ pc[d] \in {"dp_mark", "dp_set", "dp_lock", "dp_loop", "dp_ret"}
       /\ frame[d].old_state = "NVTX"

\* C20: no step of a disableProfiler called in state NVTX takes the mutex or
\* changes the registry, next_thread_id or an event list; after its
\* assignment to state it goes straight to its return, where state is
\* Disabled and the report is empty.
C20_NvtxDisableTouchesNothing ==
    [][\A d \in Threads :
         (InNvtxDisable(d) /\ pc'[d] # pc[d]) =>
            /\ mutex # d /\ mutex' = mutex
            /\ UNCHANGED <<registry, lists>>
            /\ pc[d] = "dp_set" => (pc'[d] = "dp_ret" /\ state' = "Disabled")
            /\ pc[d] = "dp_ret" => (state = "Disabled" /\ frame[d].result = <<>>)]_vars

\* C20 witness: a disableProfiler from NVTX is at its return while the
\* registry holds a list with an event in it.
C20_Witness ==
    /\ pc[Main] = "dp_ret"
    /\ frame[Main].old_state = "NVTX"
    /\ frame[Main].result = <<>>
    /\ state = "Disabled"
    /\ \E t \in Threads : InRegistry(t) /\ Len(lists[t]) >= 1

\* --------------------------------------------------------------------- C12
\* C12 (as claimed): in every step the input metadata of every Function keeps
\* its length or grows, and keeps every descriptor it had.
C12_InputsOnlyGrow ==
    [][\A f \in FnSet :
         /\ Len(input_metadata_'[f]) >= Len(input_metadata_[f])
         /\ \A i \in 1..Len(input_metadata_[f]) :
               input_metadata_'[f][i] = input_metadata_[f][i]]_vars

\* --------------------------------------------------------------------- C13
\* The descriptor an add_input_metadata call was given: the type, shape and
\* device passed; those of the tensor passed (device -1 for a CPU tensor); or
\* none.
Given(a) ==
    CASE a.flavour = "type" ->
           [type |-> a.given[1], shape |-> a.given[2], device |-> a.given[3]]
      [] a.flavour = "tensor" /\ a.given = "v" ->
           [type |-> "CPUFloatType", shape |-> <<2>>, device |-> -1]
      [] a.flavour = "tensor" /\ a.given = "w" ->
           [type |-> "CUDAFloatType", shape |-> <<3>>, device |-> 1]
      [] OTHER -> [type |-> "nullptr", shape |-> <<>>, device |-> -1]

\* C13: on a Function that has had only add_input_metadata calls on its
\* inputs since its construction, after N of them (of any flavours)
\* num_inputs() is N, the k-th call returned k-1, slot k-1 holds the
\* descriptor the k-th call was given and input_metadata(k-1) returns it; no
\* add_input_metadata call fails.
C13_AddedSlotsRetrievable ==
    /\ \A f \in built \ cleared :
         /\ Len(input_metadata_[f]) = Len(added[f])
         /\ \A k \in 1..Len(added[f]) :
               /\ added[f][k].input_nr = k - 1
               /\ input_metadata_[f][k] = Given(added[f][k])
    /\ out.op = "add_input_metadata" =>
         /\ out.error = "none"
         /\ out.fn \notin cleared => out.value = Len(added[out.fn]) - 1
    /\ (out.op = "num_inputs" /\ out.fn \notin cleared) =>
         out.value = Len(added[out.fn])
    /\ (out.op = "input_metadata" /\ out.fn \notin cleared
            /\ out.arg < Len(added[out.fn])) =>
         (out.error = "none" /\ out.value = Given(added[out.fn][out.arg + 1]))

\* C13 witness: after add_input_metadata(type, shape, device) and
\* add_input_metadata(tensor) on a new node, input_metadata(1) has returned
\* the tensor's descriptor.
C13_Witness ==
    /\ out.op = "input_metadata" /\ out.fn = "f" /\ out.arg = 1
    /\ "f" \notin cleared
    /\ Len(added["f"]) = 2
    /\ added["f"][1].flavour = "type" /\ added["f"][2].flavour = "tensor"
    /\ added["f"][2].given = "w"
    /\ out.value = [type |-> "CUDAFloatType", shape |-> <<3>>, device |-> 1]

\* --------------------------------------------------------------------- C14
\* C14: should_compute_output(i) with i < num_outputs() returns true if and
\* only if the edge now at index i has a function; with i >= num_outputs()
\* it fails with "Index out of range".
C14_ShouldComputeIffValid ==
    out.op = "should_compute_output" =>
        IF out.arg < Len(next_edges_[out.fn])
          THEN /\ out.error = "none"
               /\ out.value = (next_edges_[out.fn][out.arg + 1].function # "nullptr")
          ELSE out.error = "Index out of range"

\* C14 witness: a node constructed with a placeholder and an edge, an edge
\* added, and should_compute_output(2) has returned true.
C14_Witness ==
    /\ out.op = "should_compute_output" /\ out.arg = 2
    /\ out.value = TRUE /\ out.error = "none"
    /\ Len(next_edges_[out.fn]) = 3
    /\ next_edges_[out.fn][1].function = "nullptr"

\* --------------------------------------------------------------------- C15
RECURSIVE IndicesOf(_, _)
IndicesOf(first, second) ==
    IF first >= second THEN <<>> ELSE <<first>> \o IndicesOf(first + 1, second)

\* The indices of the ranges, in the order listed.
RECURSIVE AllIndices(_)
AllIndices(idxs) ==
    IF idxs = <<>> THEN <<>>
    ELSE AllIndices(SubSeq(idxs, 1, Len(idxs) - 1))
            \o IndicesOf(idxs[Len(idxs)][1], idxs[Len(idxs)][2])

OutOfRange(f, i) == i >= Len(next_edges_[f])
Active(f, i) == ~OutOfRange(f, i) /\ next_edges_[f][i + 1].function # "nullptr"

\* C15 (as claimed): the range overload never fails, and returns true if and
\* only if some index of its ranges is the index of a valid edge.
C15_RangesAnyActive ==
    out.op = "should_compute_output_ranges" =>
        LET ix == AllIndices(out.arg)
        IN  /\ out.error = "none"
            /\ out.value = (\E p \in 1..Len(ix) : Active(out.fn, ix[p]))

\* C15 (amended): when every index of the ranges is below num_outputs(), the
\* range overload returns true if and only if some index of its ranges is
\* the index of a valid edge (false for empty ranges); it fails with "Index
\* out of range" exactly when, going through the ranges as listed, it meets
\* an index >= num_outputs() before an index of a valid edge; and when it
\* does not fail, its result is as in the first case.
C15_RangesAnyActiveInRange ==
    out.op = "should_compute_output_ranges" =>
        LET ix == AllIndices(out.arg)
            f == out.fn
        IN  /\ (\A p \in 1..Len(ix) : ~OutOfRange(f, ix[p])) => out.error = "none"
            /\ out.error = "Index out of range" <=>
                  \E p \in 1..Len(ix) :
                     /\ OutOfRange(f, ix[p])
                     /\ \A q \in 1..(p - 1) : ~OutOfRange(f, ix[q]) /\ ~Active(f, ix[q])
            /\ out.error \in {"none", "Index out of range"}
            /\ out.error = "none" =>
                  out.value = (\E p \in 1..Len(ix) : Active(f, ix[p]))

\* C15 witness: on a node with a placeholder and an edge,
\* should_compute_output({[2,4), [0,2)}) has failed, index 2 coming before
\* the valid edge at index 1.
C15_Witness ==
    /\ out.op = "should_compute_output_ranges"
    /\ out.arg = <<(<<2, 4>>), (<<0, 2>>)>>
    /\ out.error = "Index out of range"
    /\ next_edges_[out.fn] = <<NoEdge, Edge("g", 0)>>

\* --------------------------------------------------------------------- C16
\* C16 (as claimed): next_edge(i) and set_next_edge(i, e) with
\* i >= num_outputs(), and input_metadata(i) with i >= num_inputs(), end with
\* a bounds error given to the caller.
C16_OutOfRangeFails ==
    /\ (out.op \in {"next_edge", "set_next_edge"}
           /\ out.arg >= Len(next_edges_[out.fn]))
         => out.error \notin {"none", "crash"}
    /\ (out.op = "input_metadata" /\ out.arg >= Len(input_metadata_[out.fn]))
         => out.error \notin {"none", "crash"}

\* --------------------------------------------------------------------- C17
\* The Variables of an argument list with its groups flattened.
RECURSIVE Flat(_)
Flat(arguments) ==
    IF arguments = <<>> THEN <<>>
    ELSE Flat(SubSeq(arguments, 1, Len(arguments) - 1))
            \o arguments[Len(arguments)].items

\* C17: collect_next_edges returns no edge and visits no argument when grad
\* mode is disabled on the calling thread; when it is enabled it visits the
\* n Variables of its arguments (groups flattened) and returns n edges, the
\* k-th being the gradient edge of the k-th Variable if that Variable is
\* defined and the invalid placeholder if not.
C17_CollectNextEdges ==
    out.op = "collect_next_edges" =>
        LET vs == Flat(out.arg)
        IN  /\ out.error = "none"
            /\ IF ~GradMode_enabled[Main]
                 THEN out.value = <<>> /\ out.visited = 0
                 ELSE /\ Len(out.value) = Len(vs)
                      /\ out.visited = Len(vs)
                      /\ \A k \in 1..Len(vs) :
                            out.value[k] =
                               IF vs[k] \in DefinedVariables
                                 THEN gradient_edge[vs[k]]
                                 ELSE [function |-> "nullptr", input_nr |-> 0]

\* C17 witness: with grad mode enabled, v bound to (f, 0) and w to (f, 1),
\* collect_next_edges(w, v) has returned the edges (f, 1), (f, 0).
C17_Witness ==
    /\ out.op = "collect_next_edges"
    /\ GradMode_enabled[Main]
    /\ out.arg = <<One("w"), One("v")>>
    /\ out.value = <<Edge("f", 1), Edge("f", 0)>>

\* --------------------------------------------------------------------- C18
\* C18: a create_gradient_edge(variable, function) call adds one descriptor
\* to the function's input metadata and sets the variable's gradient edge to
\* (function, k), k being num_inputs() before the call; it leaves the earlier
\* descriptors, the other nodes' descriptors, the next edges, the hooks and
\* the other variables' gradient edges as they were.  m calls on a new node
\* bind the slots 0..m-1.
C18_CreateGradientEdge ==
    /\ [](\A f \in built \ cleared : \A k \in 1..Len(added[f]) :
            added[f][k].input_nr = k - 1)
    /\ [][(out'.op = "create_gradient_edge" /\ fcalls' = fcalls + 1) =>
            LET f == out'.fn
                v == out'.arg
                k == Len(input_metadata_[f])
            IN  /\ Len(input_metadata_'[f]) = k + 1
                /\ gradient_edge'[v] = [function |-> f, input_nr |-> k]
                /\ SubSeq(input_metadata_'[f], 1, k) = input_metadata_[f]
                /\ \A g \in FnSet \ {f} : input_metadata_'[g] = input_metadata_[g]
                /\ \A w \in DefinedVariables \ {v} :
                      gradient_edge'[w] = gradient_edge[w]
                /\ UNCHANGED <<next_edges_, pre_hooks_, post_hooks_>>]_vars

\* C18 witness: create_gradient_edge(v, f) and then create_gradient_edge(w, f)
\* on the new node f have bound v to slot 0 and w to slot 1.
C18_Witness ==
    /\ out.op = "create_gradient_edge" /\ out.fn = "f" /\ out.arg = "w"
    /\ gradient_edge["v"] = Edge("f", 0)
    /\ gradient_edge["w"] = Edge("f", 1)
    /\ Len(input_metadata_["f"]) = 2

\* --------------------------------------------------------------------- C19
\* C19: the sequence numbers the constructor assigns by itself on one thread
\* are strictly increasing in the order of construction; a node's
\* sequence_nr() never changes; a construction with an explicit number leaves
\* every thread's counter alone, and one without advances only the
\* constructing thread's counter, by one, taking the value it had.
C19_SequenceNumbers ==
    /\ [](\A i \in 1..Len(constructions) : \A j \in 1..Len(constructions) :
            (i < j /\ constructions[i].auto /\ constructions[j].auto
                   /\ constructions[i].thread = constructions[j].thread)
              => sequence_nr_[constructions[i].fn] < sequence_nr_[constructions[j].fn])
    /\ [](out.op = "sequence_nr" => out.value = sequence_nr_[out.fn])
    /\ [][/\ \A f \in built : sequence_nr_'[f] = sequence_nr_[f]
          /\ IF Len(constructions') = Len(constructions) + 1
               THEN LET c == constructions'[Len(constructions')]
                    IN  IF c.auto
                          THEN /\ sequence_nr_'[c.fn] = next_sequence_nr[c.thread]
                               /\ next_sequence_nr'[c.thread] =
                                     next_sequence_nr[c.thread] + 1
                               /\ \A u \in Threads \ {c.thread} :
                                     next_sequence_nr'[u] = next_sequence_nr[u]
                          ELSE next_sequence_nr' = next_sequence_nr
               ELSE next_sequence_nr' = next_sequence_nr]_vars

\* C19 witness: the main thread has constructed f and h, another thread g in
\* between, none with an explicit number: f and g have number 0 and h has 1.
C19_Witness ==
    /\ Len(constructions) = 3
    /\ \A i \in 1..3 : constructions[i].auto
    /\ constructions[1].thread = Main /\ constructions[3].thread = Main
    /\ constructions[2].thread # Main
    /\ sequence_nr_["f"] = 0 /\ sequence_nr_["g"] = 0 /\ sequence_nr_["h"] = 1

\* --------------------------------------------------------------------- C21
\* C21 (as claimed, for the events of pushRange and popRange, the two calls
\* that return at once when the state is Disabled): every such event in the
\* report of a disableProfiler from a sampling state was recorded while the
\* state was not Disabled, after the state last left Disabled.
C21_ReportOnlySessionEvents ==
    AtReport(Main) =>
        \A i \in 1..Len(frame[Main].result) :
            \A j \in 1..Len(frame[Main].result[i]) :
                frame[Main].result[i][j].kind # "Mark"
                    => stamps.result[i][j] = "session"

\* --------------------------------------------------------------------- C22
\* The thread is in an enableProfiler call that found the profiler running.
InReEnable(t) ==
    /\ \/ pc[t] \in {"en_set", "en_cuda", "en_mark"}
       \/ pc[t] \in {"lock", "reg", "rec"} /\ frame[t].ret = "enable"
    /\ frame[t].at_call.state # "Disabled"

\* The events of the list from position from on that are "__start_profile".
StartMarks(list, from) ==
    {i \in from..Len(list) : list[i].name = "__start_profile"}

\* C22: enableProfiler(s) called with the state already s does not fail; no
\* step of the call changes the state from s, and none changes the registry
\* other than the caller's own first registration; when the call returns in
\* a sampling state the caller's list is longer than the call found it, and
\* of the events added exactly one, the last, is a Mark "__start_profile"
\* with the caller's thread id; in the NVTX state the list is as it was.
C22_ReEnableSameState ==
    [][/\ \A s \in ProfilerState \ {"Disabled"} :
            (state = s /\ enableProfiler(Main, s))
                => (pc'[Main] = "en_set" /\ err'[Main] = "none")
       /\ (InReEnable(Main) /\ pc'[Main] # pc[Main]) =>
            /\ state = frame[Main].at_call.state
            /\ state' = state
            /\ \/ all_event_lists' = all_event_lists
               \/ /\ pc[Main] = "reg" /\ ~event_list[Main]
                  /\ all_event_lists' = <<Main>> \o all_event_lists
            /\ pc'[Main] = "idle" =>
                 /\ err'[Main] = "none"
                 /\ IF Sampling(state)
                      THEN LET list == lists'[Main]
                               len == frame[Main].at_call.len
                           IN  /\ Len(list) > len
                               /\ SubSeq(list, 1, len) = SubSeq(lists[Main], 1, len)
                               /\ StartMarks(list, len + 1) = {Len(list)}
                               /\ list[Len(list)] =
                                     [kind |-> "Mark", name |-> "__start_profile",
                                      thread_id |-> thread_id[Main], cuda |-> FALSE]
                      ELSE lists'[Main] = lists[Main]]_vars

\* C22 witness: enableProfiler(CPU) has returned twice with no
\* disableProfiler between, and the caller's list holds the two
\* "__start_profile" marks.
C22_Witness ==
    /\ pc[Main] = "idle" /\ err[Main] = "none"
    /\ state = "CPU"
    /\ Len(lists[Main]) = 2
    /\ StartMarks(lists[Main], 1) = {1, 2}

====
